---- MODULE Spec2Model ----
(***************************************************************************)
(* llm-term: the prompt-to-command pipeline of src/main.rs and            *)
(* src/model.rs.  One invocation of the CLI with a prompt loads the        *)
(* cache file, consults it, possibly calls the model backend, asks the     *)
(* user for consent on standard input, possibly runs the command in a      *)
(* shell and rewrites the cache file.  Successive invocations share only   *)
(* the cache file.                                                         *)
(*                                                                         *)
(* Environment assumptions: reading a line of standard input and writing   *)
(* the cache file succeed (the `?` on io::stdin().read_line and on         *)
(* fs::write never fires); end-of-input is a successful read of the empty  *)
(* line.                                                                   *)
(***************************************************************************)
EXTENDS Integers, Sequences, FiniteSets, TLC

\* ---------------------------------------------------------------- bounds
MaxRuns == 2

Prompts == {"list files", "List files"}

Commands == {"ls -la", "ls -a", ""}

\* Lines of standard input as sequences of characters; <<>> is end-of-input.
Lines ==
  { <<>>,
    <<"\n">>,
    <<"y", "\n">>,
    <<"Y", "\r", "\n">>,
    <<"n", "\n">>,
    <<" ", "y", "\n">>,
    <<"y", "e", "s", "\n">> }

\* ------------------------------------------------------------ Option<T>
None == <<>>

Some(x) == <<x>>

\* ------------------------------------------------- user_input.trim() etc.
IsWhitespace(ch) == ch \in {" ", "\t", "\n", "\r"}

RECURSIVE TrimStart(_)
TrimStart(s) ==
  IF s = <<>> THEN <<>>
  ELSE IF IsWhitespace(Head(s)) THEN TrimStart(Tail(s)) ELSE s

RECURSIVE TrimEnd(_)
TrimEnd(s) ==
  IF s = <<>> THEN <<>>
  ELSE IF IsWhitespace(s[Len(s)]) THEN TrimEnd(SubSeq(s, 1, Len(s) - 1)) ELSE s

Trim(s) == TrimEnd(TrimStart(s))

LowerChar(ch) == IF ch = "Y" THEN "y" ELSE IF ch = "E" THEN "e"
                 ELSE IF ch = "S" THEN "s" ELSE IF ch = "N" THEN "n" ELSE ch

ToLowercase(s) == [i \in DOMAIN s |-> LowerChar(s[i])]

IsYes_NoLowercase(user_input) == Trim(user_input) = <<"y">>

IsYes_DefaultYes(user_input) == ToLowercase(Trim(user_input)) # <<"n">>

\* user_input.trim().to_lowercase() == "y"
IsYes(user_input) == ToLowercase(Trim(user_input)) = <<"y">>

\* ------------------------------------------------------ Model, get_auth
\* A Model value: the serde tag of the variant and its fields (fields a
\* variant does not carry are "" / None).
Variant(tag, model_name, endpoint, system_prompt, api_key) ==
  [tag |-> tag, model_name |-> model_name, endpoint |-> endpoint,
   system_prompt |-> system_prompt, api_key |-> api_key]

\* The configurations the invocations run under.
Models ==
  { Variant("gpt-4o", "", "", None, None),
    Variant("gpt-4o-mini", "", "", None, None),
    Variant("ollama", "llama3.1", "", None, None),
    Variant("custom", "my-model", "http://host/v1/", None, None),
    Variant("custom", "my-model", "http://host/v1/", None, Some("sk-custom")) }

\* All configurations, with and without a system prompt override and a key.
SystemPrompts == {None, Some("Answer with one zsh command."), Some("")}

ApiKeys == {None, Some("sk-custom"), Some("sk-other")}

AllModels ==
  Models \cup
  { Variant("custom", "my-model", "http://host/v1/", sp, k) :
      sp \in SystemPrompts, k \in ApiKeys }

\* The OPENAI_API_KEY variable of the process environment.
EnvKeys == {None, Some("sk-env")}

\* Auth::from_env(): Ok(key) when the variable is set, Err otherwise.
AuthFromEnv(env) == env

GetAuth_EnvFirst(m, env) ==
  CASE m.tag = "ollama" -> Some("ollama")
    [] OTHER -> IF env # None THEN env ELSE m.api_key

GetAuth_PlaceholderOnMissing(m, env) ==
  CASE m.tag = "ollama" -> Some("ollama")
    [] m.tag = "custom" /\ m.api_key # None -> m.api_key
    [] OTHER -> IF env # None THEN env ELSE Some("")

\* Model::get_auth: Some(key), or None where .expect(...) panics.
GetAuth(m, env) ==
  CASE m.tag = "gpt-4o"      -> AuthFromEnv(env)
    [] m.tag = "gpt-4o-mini" -> AuthFromEnv(env)
    [] m.tag = "ollama"      -> Some("ollama")
    [] m.tag = "custom"      -> IF m.api_key # None THEN m.api_key
                                ELSE AuthFromEnv(env)

\* ------------------------------------- Shell, get_system_prompt, display
\* The variants of shell::Shell matched by get_system_prompt.
Shells == {"Powershell", "BornAgainShell", "Zsh", "Fish",
           "DebianAlmquistShell", "KornShell", "CShell", "Unknown"}

\* std::env::consts::OS
HostOs == {"linux", "macos", "windows"}

\* get_system_prompt, lines 105-114: shell_command_type.
ShellCommandType(shell) ==
  CASE shell = "Powershell"          -> "Windows PowerShell"
    [] shell = "BornAgainShell"      -> "Bourne Again Shell (bash / sh)"
    [] shell = "Zsh"                 -> "Z Shell (zsh)"
    [] shell = "Fish"                -> "Friendly Interactive Shell (fish)"
    [] shell = "DebianAlmquistShell" -> "Debian Almquist Shell (dash)"
    [] shell = "KornShell"           -> "Korn Shell (ksh)"
    [] shell = "CShell"              -> "C Shell (csh)"
    [] shell = "Unknown"             -> ""

\* The three literal pieces of the format! string of lines 116-123.  Text
\* is a sequence of pieces, standing for their concatenation.
PromptHead == "You are a professional IT worker who only speaks in commands full, "

PromptMiddle == " compatible, CLI command running on the "

PromptTail == " operating system. [...] If you are not confident in your translation, return an empty string. [...]"

GetSystemPrompt_IgnoresOverride(m, shell, os) ==
  <<PromptHead, ShellCommandType(shell), PromptMiddle, os, PromptTail>>

\* Model::get_system_prompt
GetSystemPrompt(m, shell, os) ==
  IF m.tag = "custom" /\ m.system_prompt # None
  THEN <<m.system_prompt[1]>>
  ELSE <<PromptHead, ShellCommandType(shell), PromptMiddle, os, PromptTail>>

DisplayConfig_ShowsKey(m, shell, os) ==
  <<"Model: Custom\nModel Name: ", m.model_name, "\nEndpoint: ", m.endpoint,
    "\nAPI Key: ", IF m.api_key = None THEN "Not set" ELSE m.api_key[1],
    "\nSystem Prompt: ">> \o GetSystemPrompt(m, shell, os)

\* Model::display_config
DisplayConfig(m, shell, os) ==
  CASE m.tag = "gpt-4o" ->
         <<"Model: OpenAI GPT-4o\nModel Name: gpt-4o\nEndpoint: https://api.openai.com/v1/\nSystem Prompt: ">>
           \o GetSystemPrompt(m, shell, os)
    [] m.tag = "gpt-4o-mini" ->
         <<"Model: OpenAI GPT-4o Mini\nModel Name: gpt-4o-mini\nEndpoint: https://api.openai.com/v1/\nSystem Prompt: ">>
           \o GetSystemPrompt(m, shell, os)
    [] m.tag = "ollama" ->
         <<"Model: Ollama\nModel Name: ", m.model_name,
           "\nEndpoint: http://localhost:11434/v1/\nSystem Prompt: ">>
           \o GetSystemPrompt(m, shell, os)
    [] m.tag = "custom" ->
         <<"Model: Custom\nModel Name: ", m.model_name, "\nEndpoint: ",
           m.endpoint, "\nAPI Key: ",
           IF m.api_key = None THEN "Not set" ELSE "Set (hidden)",
           "\nSystem Prompt: ">>
           \o (IF m.system_prompt # None THEN <<m.system_prompt[1]>>
               ELSE GetSystemPrompt(m, shell, os))

\* Outcomes of client.chat_completion_create(&body) as mapped by
\* llm_get_command: Ok(Some(content)), Ok(None), Err(e).
LlmResults ==
  [kind : {"some"}, content : Commands]
    \cup {[kind |-> "none", content |-> ""], [kind |-> "err", content |-> ""]}

\* ------------------------------------------------------ HashMap, the file
CacheMaps == UNION {[S -> Commands] : S \in SUBSET Prompts}

EmptyMap == [k \in {} |-> ""]

Insert_Swapped(m, k, v) ==
  [x \in DOMAIN m \cup {v} |-> IF x = v THEN k ELSE m[x]]

Insert_KeepExisting(m, k, v) ==
  [x \in DOMAIN m \cup {k} |-> IF x \in DOMAIN m THEN m[x] ELSE v]

Insert_Replace(m, k, v) == [x \in {k} |-> v]

Insert(m, k, v) == [x \in DOMAIN m \cup {k} |-> IF x = k THEN v ELSE m[x]]

Remove_Clear(m, k) == [x \in {} |-> ""]

Remove(m, k) == [x \in DOMAIN m \ {k} |-> m[x]]

\* cache.json: absent, or holding a mapping.
Files == [exists : {TRUE}, content : CacheMaps]
           \cup {[exists |-> FALSE, content |-> EmptyMap]}

LoadCache_AlwaysEmpty(file) == EmptyMap

\* load_cache: the mapping of the file, the empty map when it cannot be read.
LoadCache(file) == IF file.exists THEN file.content ELSE EmptyMap

SaveCache_Truncate(m) == [exists |-> TRUE, content |-> EmptyMap]

\* save_cache: the file is rewritten in full from the in-memory map.
SaveCache(m) == [exists |-> TRUE, content |-> m]

\* --------------------------------------------- cache.json as JSON text
\* Strings as sequences of characters; a text is a sequence of characters.
MaxEntries == 2

KeyStrings == { <<"a">>, <<"A">>, <<"a", "\"">>, <<"\\">> }

ValueStrings == { <<"l", "s">>, <<>>, <<"\"", "\\">> }

\* The HashMap<String, String> values with at most MaxEntries entries.
StringMaps ==
  UNION { [S -> ValueStrings] :
            S \in {T \in SUBSET KeyStrings : Cardinality(T) <= MaxEntries} }

\* The orders in which a HashMap with these keys may be iterated.
Orders(keys) ==
  { o \in [1..Cardinality(keys) -> keys] :
      \A i, j \in DOMAIN o : i # j => o[i] # o[j] }

EscapeChar_Raw(ch) == <<ch>>

\* serde_json writes " as \" and \ as \\ inside a string.
EscapeChar(ch) ==
  IF ch = "\"" THEN <<"\\", "\"">>
  ELSE IF ch = "\\" THEN <<"\\", "\\">>
  ELSE <<ch>>

RECURSIVE EscapeString(_)
EscapeString(str) ==
  IF str = <<>> THEN <<>>
  ELSE EscapeChar(Head(str)) \o EscapeString(Tail(str))

Quoted(str) == <<"\"">> \o EscapeString(str) \o <<"\"">>

\* The members of the object, one per line, in iteration order o.
RECURSIVE Members(_, _, _)
Members(m, o, i) ==
  IF i > Len(o) THEN <<>>
  ELSE <<"\n", " ", " ">> \o Quoted(o[i]) \o <<":", " ">> \o Quoted(m[o[i]])
         \o (IF i < Len(o) THEN <<",">> ELSE <<"\n">>)
         \o Members(m, o, i + 1)

\* serde_json::to_string_pretty(&cache), with the map iterated in order o.
ToStringPretty(m, o) == <<"{">> \o Members(m, o, 1) \o <<"}">>

RECURSIVE SkipWhitespace(_, _)
SkipWhitespace(t, i) ==
  IF i <= Len(t) /\ t[i] \in {" ", "\n", "\t", "\r"}
  THEN SkipWhitespace(t, i + 1) ELSE i

ParseError == [ok |-> FALSE, value |-> <<>>, next |-> 0]

\* The characters of a JSON string up to its closing quote, from position i
\* after the opening quote.
RECURSIVE ParseChars(_, _, _)
ParseChars(t, i, acc) ==
  IF i > Len(t) THEN ParseError
  ELSE IF t[i] = "\"" THEN [ok |-> TRUE, value |-> acc, next |-> i + 1]
  ELSE IF t[i] = "\\"
       THEN IF i + 1 <= Len(t) /\ t[i + 1] \in {"\"", "\\"}
            THEN ParseChars(t, i + 2, Append(acc, t[i + 1]))
            ELSE ParseError
       ELSE ParseChars(t, i + 1, Append(acc, t[i]))

ParseString(t, i) ==
  IF i <= Len(t) /\ t[i] = "\"" THEN ParseChars(t, i + 1, <<>>) ELSE ParseError

\* The members of an object from position i, inserted into acc in order.
RECURSIVE ParseMembers(_, _, _)
ParseMembers(t, i, acc) ==
  LET k == ParseString(t, SkipWhitespace(t, i)) IN
  IF ~k.ok THEN ParseError ELSE
  LET c == SkipWhitespace(t, k.next) IN
  IF ~(c <= Len(t) /\ t[c] = ":") THEN ParseError ELSE
  LET v == ParseString(t, SkipWhitespace(t, c + 1)) IN
  IF ~v.ok THEN ParseError ELSE
  LET e   == SkipWhitespace(t, v.next)
      map == [x \in DOMAIN acc \cup {k.value} |->
                IF x = k.value THEN v.value ELSE acc[x]] IN
  IF e > Len(t) THEN ParseError
  ELSE IF t[e] = "," THEN ParseMembers(t, e + 1, map)
  ELSE IF t[e] = "}" /\ SkipWhitespace(t, e + 1) > Len(t)
       THEN [ok |-> TRUE, value |-> map, next |-> e + 1]
  ELSE ParseError

\* serde_json::from_str::<HashMap<String, String>>(&content)
FromStr(t) ==
  LET b == SkipWhitespace(t, 1) IN
  IF ~(b <= Len(t) /\ t[b] = "{") THEN ParseError ELSE
  LET n == SkipWhitespace(t, b + 1) IN
  IF n <= Len(t) /\ t[n] = "}" /\ SkipWhitespace(t, n + 1) > Len(t)
  THEN [ok |-> TRUE, value |-> <<>>, next |-> n + 1]
  ELSE ParseMembers(t, b + 1, <<>>)

\* ---------------------------------------------------------------- state
VARIABLES
  disk,           \* cache.json
  cache,          \* the in-memory HashMap of the running invocation
  pc,             \* position of the running invocation
  prompt,         \* matches.get_one("prompt")
  disable_cache,  \* matches.get_flag("disable-cache")
  model,          \* config.model
  env,            \* OPENAI_API_KEY
  command,        \* the command bound by the current match arm (Option)
  llm_result,     \* what llm_get_command returned (Option)
  user_input,     \* the last line read
  \* history of the running invocation
  startDisk,      \* cache.json when the invocation loaded it
  lookups,        \* sequence of results of cache.get(prompt): "hit" / "miss"
  netCalls,       \* number of chat_completion_create calls
  netDisk,        \* cache.json at the time of each backend call
  presented,      \* commands printed with the execute? prompt
  answers,        \* the lines read in answer to the execute? prompts
  inval_answers,  \* the lines read in answer to the invalidate? prompt
  executed,       \* commands handed to the shell
  removed,        \* keys passed to cache.remove
  inserted,       \* <<key, value>> pairs passed to cache.insert
  saves,          \* number of save_cache calls
  reports,        \* messages printed
  \* across invocations
  runs,           \* invocations started so far
  prev            \* summary of the invocation before the running one

flowVars == <<disk, cache, pc, prompt, disable_cache, model, env, command,
          llm_result, user_input, startDisk, lookups, netCalls, netDisk,
          presented, answers, inval_answers, executed, removed, inserted,
          saves, reports, runs, prev>>

VARIABLES
  \* a call of one function of model.rs or of the cache file round trip
  call_in,        \* the arguments
  call_done,      \* whether the call has returned
  call_out,       \* what it returned
  \* two invocations running at the same time on one cache.json
  procs,          \* per invocation: position, prompt, loaded file, map, command
  cfile,          \* the cache.json they share
  writes          \* the invocations that rewrote cfile, in order

pureVars == <<call_in, call_done, call_out>>

concVars == <<procs, cfile, writes>>

vars == <<flowVars, pureVars, concVars>>

\* No function call is under way.
PureIdle == call_in = <<>> /\ call_done = FALSE /\ call_out = <<>>

\* No concurrent invocations are under way.
ConcIdle ==
  /\ procs = <<>>
  /\ cfile = [exists |-> FALSE, content |-> EmptyMap]
  /\ writes = <<>>

NoPrev == [valid |-> FALSE, prompt |-> "", disable_cache |-> FALSE,
           lookups |-> <<>>, netCalls |-> 0, inserted |-> <<>>,
           llm_result |-> None]

\* What the invocation that just terminated did.
Summary == [valid |-> TRUE, prompt |-> prompt, disable_cache |-> disable_cache,
            lookups |-> lookups, netCalls |-> netCalls, inserted |-> inserted,
            llm_result |-> llm_result]

Terminated == pc \in {"done", "panicked"}

\* The invocation state before an invocation when n have been started.
InitFlow(n) ==
  /\ disk \in Files
  /\ cache = EmptyMap
  /\ pc = "idle"
  /\ prompt = ""
  /\ disable_cache = FALSE
  /\ model \in Models
  /\ env \in EnvKeys
  /\ command = None
  /\ llm_result = None
  /\ user_input = <<>>
  /\ startDisk = disk
  /\ lookups = <<>>
  /\ netCalls = 0
  /\ netDisk = <<>>
  /\ presented = <<>>
  /\ answers = <<>>
  /\ inval_answers = <<>>
  /\ executed = <<>>
  /\ removed = <<>>
  /\ inserted = <<>>
  /\ saves = 0
  /\ reports = <<>>
  /\ runs = n
  /\ prev = NoPrev

InitAfter(n) == InitFlow(n) /\ PureIdle /\ ConcIdle

Init == InitAfter(0)

\* ------------------------------------------------------------- operations

\* main, lines 116-117: the cache is consulted unless --disable-cache.
Consults(dc) == ~dc

CacheGet_AlwaysMiss(m, p) == None

\* cache.get(prompt)
CacheGet(m, p) == IF p \in DOMAIN m THEN Some(m[p]) ELSE None

\* get_command_from_llm up to the backend call (model.rs 29-54): get_auth
\* panics when the credential is missing, otherwise the request is sent.
\* file is cache.json at that moment; rep, n and sent are the messages
\* printed, the number of calls and their files so far in this invocation.
CallLlm(file, rep, n, sent) ==
  IF GetAuth(model, env) = None
  THEN /\ pc' = "panicked"
       /\ reports' = Append(rep, "panic")
       /\ netCalls' = n
       /\ netDisk' = sent
  ELSE /\ pc' = "awaiting_response"
       /\ reports' = rep
       /\ netCalls' = n + 1
       /\ netDisk' = Append(sent, file)

ExecuteCommand_FailureUnreported(c, launched, rep) ==
  /\ executed' = Append(executed, [command |-> c, launched |-> launched])
  /\ reports' = Append(rep, "output")

\* execute_command: the command is handed to the shell; a failure to launch
\* is reported and Ok(()) is returned all the same.
ExecuteCommand(c, launched, rep) ==
  /\ executed' = Append(executed, [command |-> c, launched |-> launched])
  /\ reports' = Append(rep, IF launched THEN "output" ELSE "launch_failed")

\* main, lines 99-150, up to the first point where the process waits.
Start(p, dc) ==
  /\ pc \in {"idle", "done", "panicked"}
  /\ runs < MaxRuns
  /\ runs' = runs + 1
  /\ prev' = IF pc = "idle" THEN prev ELSE Summary
  /\ prompt' = p
  /\ disable_cache' = dc
  /\ cache' = LoadCache(disk)
  /\ startDisk' = disk
  /\ llm_result' = None
  /\ user_input' = <<>>
  /\ answers' = <<>>
  /\ inval_answers' = <<>>
  /\ executed' = <<>>
  /\ removed' = <<>>
  /\ inserted' = <<>>
  /\ saves' = 0
  /\ UNCHANGED <<disk, model, env>>
  /\ IF Consults(dc) /\ CacheGet(LoadCache(disk), p) # None
     THEN /\ lookups' = <<"hit">>
          /\ command' = CacheGet(LoadCache(disk), p)
          /\ presented' = <<[command |-> LoadCache(disk)[p], cached |-> TRUE]>>
          /\ reports' = <<"cached">>
          /\ pc' = "cached_presented"
          /\ netCalls' = 0
          /\ netDisk' = <<>>
     ELSE /\ lookups' = IF Consults(dc) THEN <<"miss">> ELSE <<>>
          /\ command' = None
          /\ presented' = <<>>
          /\ CallLlm(disk, <<>>, 0, <<>>)
  /\ UNCHANGED <<pureVars, concVars>>

\* main, lines 122-128: the answer to the execute? prompt of a cached
\* command.  launched is the outcome of spawning the shell; it is only
\* drawn when the command is executed.
AnswerCached(line, launched) ==
  /\ pc = "cached_presented"
  /\ user_input' = line
  /\ answers' = Append(answers, line)
  /\ IF IsYes(line)
     THEN /\ ExecuteCommand(command[1], launched, reports)
          /\ pc' = "done"
     ELSE /\ launched
          /\ pc' = "ask_invalidate"
          /\ reports' = Append(reports, "ask_invalidate")
          /\ UNCHANGED executed
  /\ UNCHANGED <<disk, cache, prompt, disable_cache, model, env, command,
                 llm_result, startDisk, lookups, netCalls, netDisk, presented,
                 inval_answers, removed, inserted, saves, runs, prev>>
  /\ UNCHANGED <<pureVars, concVars>>

\* main, lines 129-141: the answer to the invalidate? prompt.
AnswerInvalidate(line) ==
  /\ pc = "ask_invalidate"
  /\ user_input' = line
  /\ inval_answers' = Append(inval_answers, line)
  /\ IF IsYes(line)
     THEN /\ cache' = Remove(cache, prompt)
          /\ removed' = Append(removed, prompt)
          /\ disk' = SaveCache(cache')
          /\ saves' = saves + 1
          /\ command' = None
          /\ CallLlm(disk', reports, netCalls, netDisk)
     ELSE /\ reports' = Append(reports, "cancelled")
          /\ pc' = "done"
          /\ UNCHANGED <<disk, cache, removed, saves, command, netCalls, netDisk>>
  /\ UNCHANGED <<prompt, disable_cache, model, env, llm_result, startDisk,
                 lookups, presented, answers, executed, inserted, runs, prev>>
  /\ UNCHANGED <<pureVars, concVars>>

\* get_command_from_llm, lines 282-284: Ok(Some(command)) is printed with
\* the execute? prompt.
ResponseSome(r) ==
  /\ command' = Some(r.content)
  /\ presented' = Append(presented, [command |-> r.content, cached |-> FALSE])
  /\ pc' = "fresh_presented"
  /\ UNCHANGED <<reports, netCalls, netDisk>>

\* get_command_from_llm, line 299: Ok(None).
ResponseNone(r) ==
  /\ reports' = Append(reports, "no_command")
  /\ pc' = "done"
  /\ UNCHANGED <<command, presented, netCalls, netDisk>>

ResponseErr_Retry(r) ==
  /\ reports' = Append(reports, "error")
  /\ IF netCalls < 2
     THEN /\ pc' = "awaiting_response"
          /\ netCalls' = netCalls + 1
          /\ netDisk' = Append(netDisk, disk)
     ELSE /\ pc' = "done"
          /\ UNCHANGED <<netCalls, netDisk>>
  /\ UNCHANGED <<command, presented>>

\* get_command_from_llm, line 300: Err(e) is printed and Ok(()) returned.
ResponseErr(r) ==
  /\ reports' = Append(reports, "error")
  /\ pc' = "done"
  /\ UNCHANGED <<command, presented, netCalls, netDisk>>

\* get_command_from_llm, line 281: the backend answered.
Response(r) ==
  /\ pc = "awaiting_response"
  /\ llm_result' = Some(r)
  /\ CASE r.kind = "some" -> ResponseSome(r)
       [] r.kind = "none" -> ResponseNone(r)
       [] r.kind = "err"  -> ResponseErr(r)
  /\ UNCHANGED <<disk, cache, prompt, disable_cache, model, env, user_input,
                 startDisk, lookups, answers, inval_answers, executed,
                 removed, inserted, saves, runs, prev>>
  /\ UNCHANGED <<pureVars, concVars>>

AnswerFresh_DeclineAsksInvalidate(line, launched) ==
  /\ pc = "fresh_presented"
  /\ user_input' = line
  /\ answers' = Append(answers, line)
  /\ IF IsYes(line)
     THEN ExecuteCommand(command[1], launched, reports) /\ pc' = "done"
     ELSE /\ launched
          /\ reports' = Append(reports, "ask_invalidate")
          /\ pc' = "ask_invalidate"
          /\ UNCHANGED executed
  /\ cache' = Insert(cache, prompt, command[1])
  /\ inserted' = Append(inserted, <<prompt, command[1]>>)
  /\ disk' = SaveCache(cache')
  /\ saves' = saves + 1
  /\ UNCHANGED <<prompt, disable_cache, model, env, command, llm_result,
                 startDisk, lookups, netCalls, netDisk, presented,
                 inval_answers, removed, runs, prev>>
  /\ UNCHANGED <<pureVars, concVars>>

\* get_command_from_llm, lines 286-297: the answer to the execute? prompt of
\* a fresh command, then the insertion into the cache and its rewrite.
AnswerFresh(line, launched) ==
  /\ pc = "fresh_presented"
  /\ user_input' = line
  /\ answers' = Append(answers, line)
  /\ IF IsYes(line)
     THEN ExecuteCommand(command[1], launched, reports)
     ELSE /\ launched
          /\ reports' = Append(reports, "cancelled")
          /\ UNCHANGED executed
  /\ cache' = Insert(cache, prompt, command[1])
  /\ inserted' = Append(inserted, <<prompt, command[1]>>)
  /\ disk' = SaveCache(cache')
  /\ saves' = saves + 1
  /\ pc' = "done"
  /\ UNCHANGED <<prompt, disable_cache, model, env, command, llm_result,
                 startDisk, lookups, netCalls, netDisk, presented,
                 inval_answers, removed, runs, prev>>
  /\ UNCHANGED <<pureVars, concVars>>

Next ==
  \/ \E p \in Prompts, dc \in BOOLEAN : Start(p, dc)
  \/ \E line \in Lines, launched \in BOOLEAN : AnswerCached(line, launched)
  \/ \E line \in Lines : AnswerInvalidate(line)
  \/ \E r \in LlmResults : Response(r)
  \/ \E line \in Lines, launched \in BOOLEAN : AnswerFresh(line, launched)

Spec == Init /\ [][Next]_vars

\* The blocking calls return: the backend call answers, and read_line
\* yields a line or end-of-input; the child process of execute_command is
\* waited for inside the answer steps.  Nothing obliges a user to start
\* another invocation.
Fairness ==
  /\ WF_vars(\E r \in LlmResults : Response(r))
  /\ WF_vars(\E line \in Lines, launched \in BOOLEAN : AnswerCached(line, launched))
  /\ WF_vars(\E line \in Lines : AnswerInvalidate(line))
  /\ WF_vars(\E line \in Lines, launched \in BOOLEAN : AnswerFresh(line, launched))

\* One invocation, the last the bound allows, from any cache file.
LiveInit == InitAfter(MaxRuns - 1)

LiveSpec == LiveInit /\ [][Next]_vars /\ Fairness

TypeOK ==
  /\ disk \in Files
  /\ cache \in CacheMaps
  /\ pc \in {"idle", "cached_presented", "ask_invalidate", "awaiting_response",
             "fresh_presented", "done", "panicked"}
  /\ netCalls \in 0..2
  /\ saves \in 0..2

\* ------------------------------------------------ calls of pure functions

\* The invocation state while only function calls are looked at.
FlowIdle ==
  /\ InitFlow(0)
  /\ ~disk.exists
  /\ model.tag = "ollama"
  /\ env = None

NoModel == Variant("", "", "", None, None)

CallInput(fn, m, other_key, e, shell, os, map, order) ==
  [fn |-> fn, model |-> m, other_key |-> other_key, env |-> e, shell |-> shell,
   os |-> os, map |-> map, order |-> order]

\* The arguments of the calls: get_system_prompt and display_config on every
\* configuration, shell and host; display_config again with another key;
\* save_cache followed by load_cache on every map and iteration order;
\* get_auth on every configuration with OPENAI_API_KEY set and unset.
CallInputs ==
  { CallInput("get_system_prompt", m, None, None, sh, os, <<>>, <<>>) :
      m \in AllModels, sh \in Shells, os \in HostOs }
  \cup
  { CallInput("display_config", m, k, None, sh, os, <<>>, <<>>) :
      m \in AllModels, k \in ApiKeys \ {None}, sh \in Shells, os \in HostOs }
  \cup
  UNION { { CallInput("save_load", NoModel, None, None, "", "", m, o) :
              o \in Orders(DOMAIN m) } : m \in StringMaps }
  \cup
  { CallInput("get_auth", m, None, e, "", "", <<>>, <<>>) :
      m \in AllModels, e \in EnvKeys }

PureInit ==
  /\ FlowIdle
  /\ ConcIdle
  /\ call_in \in CallInputs
  /\ call_done = FALSE
  /\ call_out = <<>>

\* self.get_system_prompt(&shell)
CallGetSystemPrompt ==
  /\ ~call_done
  /\ call_in.fn = "get_system_prompt"
  /\ call_done' = TRUE
  /\ call_out' = GetSystemPrompt(call_in.model, call_in.shell, call_in.os)
  /\ UNCHANGED <<call_in, flowVars, concVars>>

\* config.model.display_config(&shell), for the configuration and for the
\* same configuration holding the other key.
CallDisplayConfig ==
  /\ ~call_done
  /\ call_in.fn = "display_config"
  /\ call_done' = TRUE
  /\ call_out' =
       << DisplayConfig(call_in.model, call_in.shell, call_in.os),
          DisplayConfig([call_in.model EXCEPT !.api_key = call_in.other_key],
                        call_in.shell, call_in.os) >>
  /\ UNCHANGED <<call_in, flowVars, concVars>>

\* save_cache(path, &map) followed by load_cache(path): the text written is
\* the text read.
CallSaveLoad ==
  /\ ~call_done
  /\ call_in.fn = "save_load"
  /\ call_done' = TRUE
  /\ call_out' = FromStr(ToStringPretty(call_in.map, call_in.order))
  /\ UNCHANGED <<call_in, flowVars, concVars>>

\* self.get_auth(): Some(key), or None where it panics.
CallGetAuth ==
  /\ ~call_done
  /\ call_in.fn = "get_auth"
  /\ call_done' = TRUE
  /\ call_out' = GetAuth(call_in.model, call_in.env)
  /\ UNCHANGED <<call_in, flowVars, concVars>>

PureNext ==
  CallGetSystemPrompt \/ CallDisplayConfig \/ CallSaveLoad \/ CallGetAuth

PureSpec == PureInit /\ [][PureNext]_vars

\* ------------------------------------------ two invocations, one cache.json

Procs == {1, 2}

\* The prompts of the two invocations: different, and absent from the file.
PromptOf(i) == IF i = 1 THEN "list files" ELSE "List files"

\* Both invocations run with caching enabled under a configuration whose
\* credential resolves, so that each reaches the backend on its miss.
ConcInit ==
  /\ FlowIdle
  /\ PureIdle
  /\ cfile \in {f \in Files : DOMAIN f.content = {}}
  /\ procs = [i \in Procs |->
                [pc |-> "idle", prompt |-> PromptOf(i), loaded |-> cfile,
                 cache |-> EmptyMap, command |-> None, executed |-> FALSE]]
  /\ writes = <<>>

\* main, lines 110-146, of invocation i: the file is loaded whole and the
\* prompt looked up.
CStart(i) ==
  /\ procs[i].pc = "idle"
  /\ procs' = [procs EXCEPT
       ![i].loaded = cfile,
       ![i].cache = LoadCache(cfile),
       ![i].command = CacheGet(LoadCache(cfile), procs[i].prompt),
       ![i].pc = IF CacheGet(LoadCache(cfile), procs[i].prompt) # None
                 THEN "cached_presented" ELSE "awaiting_response"]
  /\ UNCHANGED <<cfile, writes, flowVars, pureVars>>

\* get_command_from_llm, lines 281-283 and 299-300, of invocation i.
CResponse(i, r) ==
  /\ procs[i].pc = "awaiting_response"
  /\ procs' = [procs EXCEPT
       ![i].command = IF r.kind = "some" THEN Some(r.content) ELSE None,
       ![i].pc = IF r.kind = "some" THEN "fresh_presented" ELSE "done"]
  /\ UNCHANGED <<cfile, writes, flowVars, pureVars>>

\* get_command_from_llm, lines 286-297, of invocation i: its own map gets
\* the entry and the file is rewritten in full from that map.
CAnswerFresh(i, line) ==
  /\ procs[i].pc = "fresh_presented"
  /\ procs' = [procs EXCEPT
       ![i].executed = IsYes(line),
       ![i].cache = Insert(procs[i].cache, procs[i].prompt, procs[i].command[1]),
       ![i].pc = "done"]
  /\ cfile' = SaveCache(procs'[i].cache)
  /\ writes' = Append(writes, i)
  /\ UNCHANGED <<flowVars, pureVars>>

ConcNext ==
  \/ \E i \in Procs : CStart(i)
  \/ \E i \in Procs, r \in LlmResults : CResponse(i, r)
  \/ \E i \in Procs, line \in Lines : CAnswerFresh(i, line)

ConcSpec == ConcInit /\ [][ConcNext]_vars

\* ================================================================ claims

\* An answer that is "y" or "Y" surrounded by any amount of white space.
YesAnswer(line) ==
  \E i \in DOMAIN line :
    /\ line[i] \in {"y", "Y"}
    /\ \A j \in DOMAIN line \ {i} : line[j] \in {" ", "\t", "\n", "\r"}

\* An answer that, without its line terminator, is exactly "y" or "Y".
EqualsYIgnoringCase(line) ==
  line \in { <<"y">>, <<"Y">>, <<"y", "\n">>, <<"Y", "\n">>,
             <<"y", "\r", "\n">>, <<"Y", "\r", "\n">> }

\* The commands among the first n presented whose execute? prompt was
\* answered by a line satisfying Accepts, in order of presentation.
RECURSIVE AcceptedCommands(_, _)
AcceptedCommands(Accepts(_), n) ==
  IF n = 0 THEN <<>>
  ELSE IF Accepts(answers[n])
       THEN Append(AcceptedCommands(Accepts, n - 1), presented[n].command)
       ELSE AcceptedCommands(Accepts, n - 1)

ExecutedCommands == [i \in DOMAIN executed |-> executed[i].command]

\* C1 (as stated): the commands handed to the shell are exactly the
\* presented commands whose execute? prompt was answered by a line that
\* case-insensitively equals "y"; every other answer declines.
C1_ExecutedIffEqualsY ==
  /\ Len(answers) <= Len(presented)
  /\ ExecutedCommands = AcceptedCommands(EqualsYIgnoringCase, Len(answers))

\* C1 (amended): the commands handed to the shell are exactly the presented
\* commands whose execute? prompt was answered by a line that, after its
\* surrounding white space is trimmed, case-insensitively equals "y"; any
\* other answer (empty line and end-of-input included) declines and that
\* presentation is never executed.
C1_ExecutedIffTrimmedYes ==
  /\ Len(answers) <= Len(presented)
  /\ ExecutedCommands = AcceptedCommands(YesAnswer, Len(answers))
  /\ \A i \in DOMAIN answers :
       ~YesAnswer(answers[i]) =>
         IF presented[i].cached
         THEN pc # "cached_presented" /\ reports[2] = "ask_invalidate"
         ELSE pc = "done" /\ reports[Len(reports)] = "cancelled"

\* A cached command declined with end-of-input, invalidated, and the fresh
\* command accepted with "Y".
C1_Witness ==
  /\ Len(answers) = 2
  /\ answers[1] = <<>>
  /\ answers[2] = <<"Y", "\r", "\n">>
  /\ Len(executed) = 1

\* C2: the command is passed through unchanged: a presented command is the
\* cached value on a hit and the backend's first-choice content otherwise,
\* the shell receives exactly the presented string, and the value inserted
\* into the cache (in memory and in the file) for the prompt is that string.
C2_CommandPassedThrough ==
  /\ \A i \in DOMAIN presented :
       IF presented[i].cached
       THEN presented[i].command = LoadCache(startDisk)[prompt]
       ELSE llm_result = Some([kind |-> "some", content |-> presented[i].command])
  /\ \A i \in DOMAIN executed :
       executed[i].command = presented[Len(presented)].command
  /\ \A i \in DOMAIN inserted :
       /\ inserted[i] = <<prompt, presented[Len(presented)].command>>
       /\ prompt \in DOMAIN cache
       /\ cache[prompt] = presented[Len(presented)].command
       /\ disk.exists
       /\ prompt \in DOMAIN disk.content
       /\ disk.content[prompt] = presented[Len(presented)].command

\* A fresh command different from the cached one was executed and inserted.
C2_Witness ==
  /\ pc = "done"
  /\ Len(presented) = 2
  /\ presented[1].command # presented[2].command
  /\ Len(executed) = 1
  /\ Len(inserted) = 1

\* C3: with caching enabled and an entry for the prompt, the cached value
\* is what the gate presents and the backend is not called, unless the user
\* has declined the cached command and then confirmed invalidation.
C3_HitSkipsBackend ==
  (pc # "idle" /\ ~disable_cache /\ prompt \in DOMAIN LoadCache(startDisk)) =>
    /\ lookups = <<"hit">>
    /\ presented # <<>>
    /\ presented[1] = [command |-> LoadCache(startDisk)[prompt], cached |-> TRUE]
    /\ (netCalls > 0 \/ pc \in {"awaiting_response", "panicked"}) =>
         /\ answers # <<>>
         /\ ~YesAnswer(answers[1])
         /\ inval_answers # <<>>
         /\ YesAnswer(inval_answers[1])

\* A hit that ended without any backend call, and one that called it.
C3_Witness ==
  /\ lookups = <<"hit">>
  /\ pc = "done"
  /\ netCalls = 0
  /\ Len(executed) = 1

C3_WitnessInvalidated ==
  /\ lookups = <<"hit">>
  /\ netCalls = 1

\* The user declined the cached command and answered yes to invalidate?.
Invalidated == inval_answers # <<>> /\ YesAnswer(inval_answers[1])

\* The configured variant needs OPENAI_API_KEY and it is not set.
CredentialMissing ==
  /\ env = <<>>
  /\ \/ model.tag \in {"gpt-4o", "gpt-4o-mini"}
     \/ model.tag = "custom" /\ model.api_key = <<>>

\* The mapping m holds the same entry, or the same absence, for key k as n.
SameEntry(m, n, k) ==
  /\ k \in DOMAIN m <=> k \in DOMAIN n
  /\ k \in DOMAIN m => m[k] = n[k]

\* The file holds exactly the mapping loaded at the start without prompt.
StartWithoutPrompt(file) ==
  /\ file.exists
  /\ prompt \notin DOMAIN file.content
  /\ \A k \in Prompts \ {prompt} :
       SameEntry(file.content, LoadCache(startDisk), k)

\* The invocation reached get_command_from_llm.
ResolveEntered == pc # "idle" /\ (lookups # <<"hit">> \/ Invalidated)

\* Two invocations in a row for the same prompt, both with caching enabled,
\* the prompt absent from the cache before the first.
TwiceInARow ==
  /\ prev.valid
  /\ prev.prompt = prompt
  /\ ~prev.disable_cache
  /\ ~disable_cache
  /\ prev.lookups = <<"miss">>

\* C4 (as stated): resolving a prompt absent from the cache twice in a row
\* with caching enabled hits the network exactly once and the cache exactly
\* twice, a miss followed by an insert and then a hit, whatever the backend
\* returns and whatever the user answers.
C4_OneNetworkHitTwoLookups ==
  (TwiceInARow /\ Terminated) =>
    /\ prev.netCalls + netCalls = 1
    /\ Len(prev.lookups) + Len(lookups) = 2
    /\ prev.inserted # <<>>
    /\ lookups = <<"hit">>

\* C4 (amended): the cache is consulted exactly twice; when the backend of
\* the first run returns a command, the first run is a miss followed by an
\* insert, the second run is a hit on the inserted command, and the network
\* is hit once in all unless the user of the second run declines the cached
\* command and confirms invalidation; when the first run yields no command
\* (no choice, error, missing credential) nothing is inserted and the second
\* run is a miss that resolves again.
C4_SecondRunHitsAfterInsert ==
  TwiceInARow =>
    /\ Len(prev.lookups) + Len(lookups) = 2
    /\ IF prev.llm_result # None /\ prev.llm_result[1].kind = "some"
       THEN /\ prev.netCalls = 1
            /\ prev.inserted = << <<prompt, prev.llm_result[1].content>> >>
            /\ lookups = <<"hit">>
            /\ presented[1] = [command |-> prev.llm_result[1].content,
                               cached |-> TRUE]
            /\ Terminated =>
                 prev.netCalls + netCalls =
                   IF Invalidated /\ ~CredentialMissing THEN 2 ELSE 1
       ELSE /\ prev.inserted = <<>>
            /\ lookups = <<"miss">>
            /\ prev.netCalls = (IF CredentialMissing THEN 0 ELSE 1)
            /\ Terminated => netCalls = prev.netCalls

\* The second of two runs was a hit and the two runs made one backend call.
C4_Witness ==
  /\ TwiceInARow
  /\ Terminated
  /\ lookups = <<"hit">>
  /\ prev.inserted # <<>>
  /\ prev.netCalls + netCalls = 1

\* C5: an invocation with --disable-cache neither consults nor changes an
\* existing cache entry for its prompt: the entry keeps its key and value.
C5_DisableCacheLeavesEntry ==
  (pc # "idle" /\ disable_cache /\ prompt \in DOMAIN LoadCache(startDisk)) =>
    /\ lookups = <<>>
    /\ prompt \in DOMAIN cache
    /\ cache[prompt] = LoadCache(startDisk)[prompt]
    /\ prompt \in DOMAIN LoadCache(disk)
    /\ LoadCache(disk)[prompt] = LoadCache(startDisk)[prompt]

\* C6: a cached command declined without a "y" to the invalidation prompt
\* leaves the in-memory cache and the cache file as they were, with no
\* write and no backend call.
C6_DeclineKeepsCache ==
  (/\ lookups = <<"hit">>
   /\ answers # <<>>
   /\ ~YesAnswer(answers[1])
   /\ \A i \in DOMAIN inval_answers : ~YesAnswer(inval_answers[i])) =>
    /\ cache = LoadCache(startDisk)
    /\ disk = startDisk
    /\ saves = 0
    /\ removed = <<>>
    /\ inserted = <<>>
    /\ netCalls = 0
    /\ pc \in {"ask_invalidate", "done"}

\* The cached command was declined and the invalidation prompt answered "n".
C6_Witness ==
  /\ pc = "done"
  /\ lookups = <<"hit">>
  /\ answers = << <<"n", "\n">> >>
  /\ inval_answers = << <<"n", "\n">> >>
  /\ DOMAIN cache = Prompts

\* C7 (as stated): after a declined cached command and a confirmed
\* invalidation exactly the prompt's entry is removed, the removal precedes
\* the backend call, and exactly one backend call follows.
C7_InvalidateThenOneCall ==
  Invalidated =>
    /\ removed = <<prompt>>
    /\ \A k \in Prompts \ {prompt} :
         /\ SameEntry(cache, LoadCache(startDisk), k)
         /\ SameEntry(LoadCache(disk), LoadCache(startDisk), k)
    /\ \A i \in DOMAIN netDisk : StartWithoutPrompt(netDisk[i])
    /\ netCalls = 1

\* C7 (amended): after a declined cached command and a confirmed
\* invalidation exactly the prompt's entry is removed (every other entry
\* keeps its key and value), the file no longer holds the entry when the
\* backend is called, and exactly one fresh resolve follows: one backend
\* call, or none when the credential is missing and the resolve fails first.
C7_InvalidateThenOneResolve ==
  Invalidated =>
    /\ removed = <<prompt>>
    /\ \A k \in Prompts \ {prompt} :
         /\ SameEntry(cache, LoadCache(startDisk), k)
         /\ SameEntry(LoadCache(disk), LoadCache(startDisk), k)
    /\ \A i \in DOMAIN netDisk : StartWithoutPrompt(netDisk[i])
    /\ netCalls = (IF CredentialMissing THEN 0 ELSE 1)
    /\ Len(netDisk) = netCalls
    /\ inserted = <<>> => StartWithoutPrompt(disk) /\ cache = disk.content
    /\ Len(inserted) <= 1
    /\ Len(presented) <= 2

\* The entry of one prompt was invalidated while the other prompt had one,
\* and the backend was called.
C7_Witness ==
  /\ Invalidated
  /\ netCalls = 1
  /\ pc = "done"
  /\ DOMAIN LoadCache(startDisk) = Prompts
  /\ prompt \notin DOMAIN cache

\* C8: when the full resolve path yields a non-empty command c for prompt
\* p, p -> c is inserted and persisted: at the end of the invocation the
\* cache file maps p to c and holds every other entry unchanged.
C8_FreshCommandInserted ==
  (/\ pc = "done"
   /\ llm_result # None
   /\ llm_result[1].kind = "some"
   /\ llm_result[1].content # "") =>
    /\ inserted = << <<prompt, llm_result[1].content>> >>
    /\ disk.exists
    /\ prompt \in DOMAIN disk.content
    /\ disk.content[prompt] = llm_result[1].content
    /\ \A k \in Prompts \ {prompt} :
         SameEntry(disk.content, LoadCache(startDisk), k)
    /\ cache = disk.content

\* With --disable-cache the entry c0 of the prompt was replaced by c.
C8_Witness ==
  /\ pc = "done"
  /\ disable_cache
  /\ prompt \in DOMAIN LoadCache(startDisk)
  /\ LoadCache(startDisk)[prompt] = "ls -la"
  /\ LoadCache(disk)[prompt] = "ls -a"

\* After invalidation of c0 the cache ends with p -> c.
C8_WitnessInvalidated ==
  /\ pc = "done"
  /\ Invalidated
  /\ LoadCache(startDisk)[prompt] = "ls -la"
  /\ prompt \in DOMAIN disk.content
  /\ disk.content[prompt] = "ls -a"

HostedWithoutCredential ==
  model.tag \in {"gpt-4o", "gpt-4o-mini"} /\ env = <<>>

\* C9 (as stated): with a hosted variant and the credential unset, resolve
\* fails before any network attempt, the failure is reported, and the cache
\* in memory and on disk is as it was before the invocation, on every path
\* that reaches resolve.
C9_MissingCredentialCacheAsBefore ==
  (HostedWithoutCredential /\ ResolveEntered) =>
    /\ pc = "panicked"
    /\ netCalls = 0
    /\ reports[Len(reports)] = "panic"
    /\ cache = LoadCache(startDisk)
    /\ disk = startDisk

\* C9 (amended): with a hosted variant and the credential unset, resolve
\* fails before any network attempt and the failure is reported; nothing is
\* presented by resolve, executed or inserted, and the cache is as it was
\* when resolve was entered: as before the invocation on the miss and
\* --disable-cache paths, and without the invalidated entry (already removed
\* and persisted) on the path after a confirmed invalidation.
C9_MissingCredentialFailsBeforeNetwork ==
  (HostedWithoutCredential /\ ResolveEntered) =>
    /\ pc = "panicked"
    /\ netCalls = 0
    /\ netDisk = <<>>
    /\ llm_result = <<>>
    /\ reports[Len(reports)] = "panic"
    /\ executed = <<>>
    /\ inserted = <<>>
    /\ \A i \in DOMAIN presented : presented[i].cached
    /\ IF Invalidated
       THEN StartWithoutPrompt(disk) /\ cache = disk.content /\ saves = 1
       ELSE disk = startDisk /\ cache = LoadCache(startDisk) /\ saves = 0

\* The credential was found missing on the miss path with a populated cache.
C9_Witness ==
  /\ HostedWithoutCredential
  /\ pc = "panicked"
  /\ lookups = <<"miss">>
  /\ LoadCache(startDisk) # <<>>

BackendFailed == llm_result # <<>> /\ llm_result[1].kind = "err"

\* C10 (as stated): when the backend call fails the error is reported, no
\* command is presented or executed by the failed resolve, no retry is
\* made, and the cache file equals the cache file before the invocation,
\* on the path after a confirmed invalidation too.
C10_BackendErrorCacheAsBefore ==
  BackendFailed =>
    /\ pc = "done"
    /\ reports[Len(reports)] = "error"
    /\ \A i \in DOMAIN presented : presented[i].cached
    /\ executed = <<>>
    /\ netCalls = 1
    /\ disk = startDisk

\* C10 (amended): when the backend call fails the error is reported, no
\* command is presented or executed by the failed resolve, no retry is
\* made, and the failed resolve leaves the cache untouched: the cache file
\* after the invocation equals the file at the time of the call, which is
\* the file before the invocation on the miss and --disable-cache paths and
\* that file without the invalidated entry after a confirmed invalidation.
C10_BackendErrorCacheUntouched ==
  BackendFailed =>
    /\ pc = "done"
    /\ reports[Len(reports)] = "error"
    /\ \A i \in DOMAIN presented : presented[i].cached
    /\ executed = <<>>
    /\ inserted = <<>>
    /\ netCalls = 1
    /\ netDisk = <<disk>>
    /\ cache = LoadCache(disk)
    /\ IF Invalidated
       THEN StartWithoutPrompt(disk) /\ saves = 1
       ELSE disk = startDisk /\ saves = 0

\* The backend failed on a miss with a populated cache file.
C10_Witness ==
  /\ BackendFailed
  /\ lookups = <<"miss">>
  /\ LoadCache(disk) # <<>>

\* The backend produced no usable command: no choice, no message content,
\* or the empty string.
NoUsableCommand ==
  /\ llm_result # <<>>
  /\ \/ llm_result[1].kind = "none"
     \/ llm_result[1].kind = "some" /\ llm_result[1].content = ""

\* C11: the gate is entered only for a non-empty command: when the backend
\* returns no choice, no content or the empty string, the user is not
\* prompted, nothing is executed, nothing is inserted into the cache, and
\* the outcome is reported as the informational "no command" message.
C11_GateOnlyForNonEmptyCommand ==
  NoUsableCommand =>
    /\ pc = "done"
    /\ \A i \in DOMAIN presented : presented[i].cached
    /\ executed = <<>>
    /\ inserted = <<>>
    /\ reports[Len(reports)] = "no_command"

\* C12: an invocation makes at most one backend call and runs at most one
\* child shell, on every path.
C12_AtMostOneCallOneChild ==
  /\ netCalls <= 1
  /\ Len(netDisk) = netCalls
  /\ Len(executed) <= 1

\* After a hit, a decline and an invalidation, the one backend call was
\* made and the fresh command was run.
C12_Witness ==
  /\ pc = "done"
  /\ lookups = <<"hit">>
  /\ Invalidated
  /\ netCalls = 1
  /\ Len(executed) = 1

\* C13 (as stated): an invocation rewrites the cache file at most once, on
\* every path.
C13_AtMostOneRewrite == saves <= 1

\* C13 (amended): an invocation rewrites the cache file once for a
\* confirmed invalidation and once for the insertion of a fresh command, so
\* at most once on every path except decline-then-invalidate followed by a
\* fresh resolve that yields a command, where it rewrites it twice; each
\* rewrite is the full in-memory map, and without a rewrite the file is as
\* it was loaded.
C13_RewritesPerInvocation ==
  /\ Len(removed) <= 1
  /\ Len(inserted) <= 1
  /\ saves = Len(removed) + Len(inserted)
  /\ saves = 2 <=>
       /\ Invalidated
       /\ pc = "done"
       /\ llm_result # <<>>
       /\ llm_result[1].kind = "some"
  /\ saves > 0 => disk.exists /\ disk.content = cache
  /\ saves = 0 => disk = startDisk

\* The file was rewritten for the removal and again for the insertion.
C13_Witness ==
  /\ saves = 2
  /\ removed = <<prompt>>
  /\ Len(inserted) = 1
  /\ DOMAIN cache = Prompts

\* C15: no entry disappears from the cache file on its own: a key present
\* when an invocation starts is present in the file throughout and after it
\* unless its cached command was presented, declined, and invalidation was
\* confirmed for it in that invocation.
C15_EntriesOnlyLeaveByInvalidation ==
  \A k \in DOMAIN LoadCache(startDisk) :
    \/ k \in DOMAIN LoadCache(disk)
    \/ /\ k = prompt
       /\ presented # <<>>
       /\ presented[1] = [command |-> LoadCache(startDisk)[k], cached |-> TRUE]
       /\ answers # <<>>
       /\ ~YesAnswer(answers[1])
       /\ Invalidated

\* In the second of two invocations both keys of the file survived a fresh
\* insertion for one of them.
C15_Witness ==
  /\ runs = 2
  /\ pc = "done"
  /\ DOMAIN LoadCache(startDisk) = Prompts
  /\ DOMAIN LoadCache(disk) = Prompts
  /\ Len(inserted) = 1
  /\ disk # startDisk

\* C20: a failure to launch the shell after a "y" is reported and is not
\* fatal: the invocation ends normally with the command counted as
\* executed, and a fresh command is still inserted into the cache and
\* persisted.
C20_LaunchFailureNotFatal ==
  \A i \in DOMAIN executed :
    ~executed[i].launched =>
      /\ pc = "done"
      /\ reports[Len(reports)] = "launch_failed"
      /\ YesAnswer(answers[Len(answers)])
      /\ executed[i].command = presented[Len(presented)].command
      /\ IF presented[Len(presented)].cached
         THEN inserted = <<>> /\ disk = startDisk
         ELSE /\ inserted = << <<prompt, executed[i].command>> >>
              /\ disk.exists
              /\ prompt \in DOMAIN disk.content
              /\ disk.content[prompt] = executed[i].command
              /\ cache = disk.content

\* The shell failed to launch for a fresh command on a miss.
C20_Witness ==
  /\ pc = "done"
  /\ lookups = <<"miss">>
  /\ Len(executed) = 1
  /\ ~executed[1].launched
  /\ Len(inserted) = 1

Running == pc \in {"cached_presented", "ask_invalidate", "awaiting_response",
                   "fresh_presented"}

\* What the gate has read and done stays within one pass: at most three
\* lines, at most one invalidation prompt, at most one resolve, and a
\* declined fresh command ends the invocation.
OnePass ==
  /\ Len(answers) + Len(inval_answers) <= 3
  /\ Len(answers) <= 2
  /\ Len(inval_answers) <= 1
  /\ netCalls <= 1
  /\ Len(presented) <= 2
  /\ \A i \in DOMAIN answers :
       ~presented[i].cached => pc = "done"
  /\ \A i \in DOMAIN presented :
       i > 1 => ~presented[i].cached

\* C19: every invocation with a prompt terminates, given that the backend
\* call and the child process return and that each read yields a line or
\* end-of-input: the gate reads at most three lines, the re-run after a
\* confirmed invalidation is a fresh result whose decline is terminal (no
\* second invalidation prompt, no second resolve, no loop), and
\* end-of-input at any prompt is a non-"y" answer.
C19_InvocationTerminates ==
  /\ [](OnePass)
  /\ Running ~> Terminated
  /\ [](Len(executed) <= Cardinality({i \in DOMAIN answers : answers[i] # <<>>}))
  /\ [](\A i \in DOMAIN inval_answers :
          inval_answers[i] = <<>> => pc = "done" /\ removed = <<>>)

\* Three lines were read: the cached command declined, the invalidation
\* confirmed, the fresh command declined with end-of-input.
C19_Witness ==
  /\ pc = "done"
  /\ Len(answers) = 2
  /\ Len(inval_answers) = 1
  /\ answers[2] = <<>>
  /\ executed = <<>>

Returned(fn) == call_done /\ call_in.fn = fn

\* C16: for a Custom variant carrying a system_prompt override the system
\* prompt is that override verbatim, whatever the shell and the host OS;
\* in every other case it is the default prompt, which contains the label
\* of the resolved shell and the host OS identifier.
C16_SystemPromptResolution ==
  Returned("get_system_prompt") =>
    IF call_in.model.tag = "custom" /\ call_in.model.system_prompt # <<>>
    THEN call_out = <<call_in.model.system_prompt[1]>>
    ELSE /\ Len(call_out) = 5
         /\ call_out[1] = PromptHead
         /\ call_out[2] = ShellCommandType(call_in.shell)
         /\ call_out[3] = PromptMiddle
         /\ call_out[4] = call_in.os
         /\ call_out[5] = PromptTail

\* An override was returned for a shell and host the default would name.
C16_Witness ==
  /\ Returned("get_system_prompt")
  /\ call_in.model.system_prompt = <<"Answer with one zsh command.">>
  /\ call_in.shell = "Fish"
  /\ call_in.os = "windows"
  /\ call_out = <<"Answer with one zsh command.">>

\* C17: display_config never reveals the API key: two Custom
\* configurations that differ only in the value of a present api_key are
\* displayed identically, and no piece of the display is the key.
C17_DisplayHidesKey ==
  (/\ Returned("display_config")
   /\ call_in.model.tag = "custom"
   /\ call_in.model.api_key # <<>>) =>
    /\ call_out[1] = call_out[2]
    /\ \A i \in DOMAIN call_out[1] :
         call_out[1][i] \notin {call_in.model.api_key[1], call_in.other_key[1]}
    /\ \E i \in DOMAIN call_out[1] : call_out[1][i] = "Set (hidden)"

\* Two configurations with different keys were displayed.
C17_Witness ==
  /\ Returned("display_config")
  /\ call_in.model.tag = "custom"
  /\ call_in.model.api_key = <<"sk-custom">>
  /\ call_in.other_key = <<"sk-other">>
  /\ call_in.model.system_prompt = <<>>

\* C18: the cache round-trips through its file: saving a map and loading
\* the file yields a map equal to it, every pair unchanged, keys that
\* differ only in case kept as distinct entries.
C18_CacheRoundTrip ==
  Returned("save_load") =>
    /\ call_out.ok
    /\ DOMAIN call_out.value = DOMAIN call_in.map
    /\ \A k \in DOMAIN call_in.map : call_out.value[k] = call_in.map[k]

\* A map with the keys "a" and "A", one value holding a quote and a
\* backslash, came back.
C18_Witness ==
  /\ Returned("save_load")
  /\ DOMAIN call_in.map = {<<"a">>, <<"A">>}
  /\ call_in.map[<<"a">>] = <<"\"", "\\">>
  /\ call_in.map[<<"A">>] = <<"l", "s">>
  /\ call_out.ok

\* The entries of a cache.json as it was loaded.
Loaded(file) == IF file.exists THEN file.content ELSE <<>>

\* C14: concurrent invocations on one cache file are last-writer-wins: the
\* file is always the map of the invocation that wrote last, which is the
\* file that invocation loaded at its start plus its own entry, so the
\* entry another invocation wrote in between is lost.
C14_LastWriterWins ==
  writes # <<>> =>
    LET w == writes[Len(writes)] IN
    /\ cfile.exists
    /\ cfile.content = procs[w].cache
    /\ DOMAIN cfile.content =
         DOMAIN Loaded(procs[w].loaded) \cup {procs[w].prompt}
    /\ cfile.content[procs[w].prompt] = procs[w].command[1]
    /\ \A k \in DOMAIN Loaded(procs[w].loaded) \ {procs[w].prompt} :
         cfile.content[k] = Loaded(procs[w].loaded)[k]
    /\ \A o \in Procs \ {w} :
         procs[o].prompt \notin DOMAIN Loaded(procs[w].loaded) =>
           procs[o].prompt \notin DOMAIN cfile.content

\* Both invocations missed, both inserted and saved, and the file holds
\* only the entry of the second writer.
C14_Witness ==
  /\ Len(writes) = 2
  /\ \A i \in Procs : procs[i].pc = "done" /\ procs[i].command # <<>>
  /\ DOMAIN cfile.content = {procs[writes[2]].prompt}
  /\ procs[writes[1]].prompt \in DOMAIN procs[writes[1]].cache

\* C21: credential resolution per variant: the local-compatible variant
\* resolves to the fixed placeholder and never fails; a Custom variant with
\* an api_key resolves to that key whatever the environment variable holds,
\* set or unset; a Custom variant without api_key resolves to the
\* environment variable and fails for a missing credential exactly when
\* the hosted variants do, when the variable is unset.
C21_CredentialPerVariant ==
  Returned("get_auth") =>
    LET m == call_in.model IN
    /\ m.tag = "ollama" => call_out = <<"ollama">>
    /\ (m.tag = "custom" /\ m.api_key # <<>>) => call_out = m.api_key
    /\ (m.tag = "custom" /\ m.api_key = <<>>) => call_out = call_in.env
    /\ m.tag \in {"gpt-4o", "gpt-4o-mini"} => call_out = call_in.env
    /\ call_out = <<>> <=>
         /\ call_in.env = <<>>
         /\ \/ m.tag \in {"gpt-4o", "gpt-4o-mini"}
            \/ m.tag = "custom" /\ m.api_key = <<>>

\* A Custom variant with a key resolved to it although OPENAI_API_KEY was
\* set to another value.
C21_Witness ==
  /\ Returned("get_auth")
  /\ call_in.model.tag = "custom"
  /\ call_in.model.api_key = <<"sk-custom">>
  /\ call_in.env = <<"sk-env">>
  /\ call_out = <<"sk-custom">>

====
